---- MODULE Spec2Model ----
(***************************************************************************)
(* Model of the tweet / user routes of the social-feed backend.            *)
(*                                                                         *)
(*   src/models/Tweet.js    the Tweet document                              *)
(*   src/routes/tweets.js   create, feed, delete, like/unlike,              *)
(*                          retweet/unretweet, addUserInteractionInfo       *)
(*   src/routes/users.js    follow / unfollow                               *)
(*                                                                         *)
(* Every request is a handler that suspends at each store access (await).  *)
(* One action of the model is one store access together with the           *)
(* synchronous code that runs up to the next await.  Requests in different *)
(* slots interleave at these points.                                       *)
(***************************************************************************)
EXTENDS Integers, Sequences, FiniteSets, TLC

\* ------------------------------------------------------------------ bounds

\* Requests that may be started in one behaviour: when they interleave, and
\* when they run one after another.
MaxRequests == 3
MaxSerial == 4

\* Registered users (registration itself is not modelled), the ids a tweet
\* can have, and the request slots (requests in flight together).
Users == {"u1", "u2", "u3"}
TweetIds == {"t1", "t2"}
Slots == {"r1", "r2"}

\* An id that resolves to no stored tweet, and one that resolves to no user.
GhostTweet == "t0"
GhostUser == "u0"

None == "none"

VARIABLES
  users,    \* User collection: id -> [following, followers, likes, retweets]
  tweets,   \* Tweet collection: id -> document, for the ids that are stored
  reqs,     \* slot -> the request in flight in it (or Idle)
  started,  \* number of requests started so far
  serial,   \* TRUE: a request starts only when no other is in flight
  minted,   \* the tweet ids given out so far (an ObjectId is never reused)
  failed,   \* history: some store write has failed
  gap,      \* history: the adds left half done by a failed second write
  pre,      \* history (serial runs): the store when the current request started
  last      \* history (serial runs): the request that responded last

vars == <<users, tweets, reqs, started, serial, minted, failed, gap, pre, last>>

\* ------------------------------------------------------- array primitives

\* Array.prototype.includes
Includes(arr, x) == \E i \in 1..Len(arr) : arr[i] = x

\* Array.prototype.unshift: insert at the front.
Unshift(arr, x) == <<x>> \o arr

\* arr.filter(e => e.toString() !== x): drop every occurrence, keep the order.
FilterOut(arr, x) == SelectSeq(arr, LAMBDA e : e # x)

\* MongoDB $push: append at the end, duplicates allowed.
\* (faulty variant: insert at the front)
PushFront(arr, x) == <<x>> \o arr

Push(arr, x) == Append(arr, x)

\* MongoDB $pull: remove every matching element.
Pull(arr, x) == SelectSeq(arr, LAMBDA e : e # x)

\* ------------------------------------------------------------- documents

\* A user as stored; the four membership arrays of the User model.
NewUser == [following |-> <<>>, followers |-> <<>>,
            likes |-> <<>>, retweets |-> <<>>]

\* TweetSchema: a new document has empty likes/retweets, image '' by
\* default, no replyTo field unless set, and the version key __v at 0
\* (the schema does not disable versioning).
NewTweet(author, content, image, replyTo, now) ==
  [user |-> author, content |-> content, image |-> image,
   likes |-> <<>>, retweets |-> <<>>, replyTo |-> replyTo,
   createdAt |-> now, v |-> 0]

\* ------------------------------------------------------------- requests

NoDoc == [likes |-> <<>>, retweets |-> <<>>, v |-> 0]

\* The query of a feed request (req.query); a parameter that is not given is
\* None, or the empty string for the ones modelled as character sequences.
NoParams == [username |-> None, query |-> <<>>, type |-> None,
             replyToId |-> None, page |-> <<>>, limit |-> <<>>]

\* The body of a create request (req.body).
NoBody == [content |-> <<>>, image |-> "", replyToId |-> None]

\* The place of a view whose comment-count lookup has not resolved yet.
NoView == [id |-> None, isLiked |-> FALSE, isRetweeted |-> FALSE,
           likesCount |-> 0, retweetsCount |-> 0, commentsCount |-> 0,
           replyToUser |-> None]

\* A slot: the request's inputs, its position (pc), what it holds in memory
\* (following, doc, uid, ids, found, views), its response (result, out) and
\* history kept for the properties: full (the whole sorted selection), done
\* (the lookups in the order they resolved), counted (the replies each lookup
\* counted), snap and old (the tweets stored and the ids given out when a
\* feed request started), retry (the request repeats an add that was left
\* half done).
Idle == [kind |-> "idle", viewer |-> None, target |-> None, pc |-> "idle",
         following |-> <<>>, doc |-> NoDoc, result |-> None,
         params |-> NoParams, body |-> NoBody, uid |-> None, ids |-> <<>>,
         full |-> <<>>, found |-> <<>>, views |-> <<>>, out |-> <<>>,
         done |-> <<>>, counted |-> <<>>, snap |-> <<>>, old |-> {},
         retry |-> FALSE, mixed |-> FALSE]

InFlight == {r \in Slots : reqs[r].kind # "idle"}

Store == [users |-> users, tweets |-> tweets]

NoLast == [kind |-> None, viewer |-> None, target |-> None, result |-> None,
           before |-> <<>>, mirror |-> <<>>]

\* The membership array a social action works on, and its mirror on the
\* counterpart document, as stored in `st` (empty when the document is gone).
OwnList(st, kind, u, x) ==
  CASE kind \in {"like", "unlike"} ->
         IF x \in DOMAIN st.tweets THEN st.tweets[x].likes ELSE <<>>
    [] kind \in {"retweet", "unretweet"} ->
         IF x \in DOMAIN st.tweets THEN st.tweets[x].retweets ELSE <<>>
    [] kind \in {"follow", "unfollow"} -> st.users[u].following
    [] OTHER -> <<>>

MirrorList(st, kind, u, x) ==
  CASE kind \in {"like", "unlike"} -> st.users[u].likes
    [] kind \in {"retweet", "unretweet"} -> st.users[u].retweets
    [] kind \in {"follow", "unfollow"} ->
         IF x \in Users THEN st.users[x].followers ELSE <<>>
    [] OTHER -> <<>>

\* The auth middleware resolves the caller to its User document before the
\* handler runs; req.user is that document as it was read then.
auth(u) == users[u]

\* A request enters slot r: auth has run, the handler has not yet awaited.
CanEnter(r) ==
  /\ reqs[r].kind = "idle"
  /\ started < (IF serial THEN MaxSerial ELSE MaxRequests)
  /\ serial => InFlight = {} /\ r = "r1"

\* The request in slot o is a social action of viewer u on the given target.
SameAct(o, u, target) ==
  /\ reqs[o].kind \in {"like", "unlike", "retweet", "unretweet",
                       "follow", "unfollow"}
  /\ reqs[o].viewer = u /\ reqs[o].target = target

\* History kept with the request: `retry` tells that it repeats a half-done
\* add, `mixed` that another action of the same viewer on the same target
\* was in flight at some time of its flight.
EnterWith(r, kind, u, target, params, body, pc, result) ==
  /\ CanEnter(r)
  /\ started' = started + 1
  /\ reqs' = [o \in Slots |->
                IF o = r
                THEN [Idle EXCEPT !.kind = kind, !.viewer = u, !.target = target,
                             !.params = params, !.body = body,
                             !.pc = pc, !.result = result,
                             !.following = auth(u).following,
                             !.snap = IF kind = "feed" THEN tweets ELSE <<>>,
                             !.old = IF kind = "feed" THEN minted ELSE {},
                             !.retry = \E g \in gap : /\ g.kind = kind
                                                      /\ g.viewer = u
                                                      /\ g.target = target,
                             !.mixed = \E x \in Slots : SameAct(x, u, target)]
                ELSE IF SameAct(o, u, target)
                     THEN [reqs[o] EXCEPT !.mixed = TRUE]
                     ELSE reqs[o]]
  /\ pre' = IF serial THEN Store ELSE pre
  /\ gap' = {g \in gap : ~(g.viewer = u /\ g.target = target)}
  /\ UNCHANGED <<serial, minted, failed, last>>

Enter(r, kind, u, target, params, pc, result) ==
  EnterWith(r, kind, u, target, params, NoBody, pc, result)

\* The handler ends with a response of the given outcome.
Finish(r, result) ==
  reqs' = [reqs EXCEPT ![r].pc = "respond", ![r].result = result]

\* What a step that is neither the start nor the end of a request leaves alone.
Quiet == UNCHANGED <<started, serial, minted, failed, gap, pre, last>>

\* ------------------------------------------------ like / unlike (tweets.js)

\* POST /:id/like, up to the first await.
LikeBegin(r, u, t) ==
  /\ Enter(r, "like", u, t, NoParams, "find", None)
  /\ UNCHANGED <<users, tweets>>

\* `tweet.likes.includes(req.user.id)` of POST /:id/like.
\* (faulty variant: the guard never fires)
AlreadyLikedNever(doc, u) == FALSE

AlreadyLiked(doc, u) == Includes(doc.likes, u)

\* Tweet.findById, the 404 and 400 guards, and tweet.likes.unshift.
LikeFind(r) ==
  LET q == reqs[r] IN
  /\ q.kind = "like" /\ q.pc = "find"
  /\ UNCHANGED <<users, tweets>> /\ Quiet
  /\ IF q.target \notin DOMAIN tweets THEN Finish(r, "NotFound")
     ELSE IF AlreadyLiked(tweets[q.target], q.viewer) THEN Finish(r, "Conflict")
     ELSE reqs' = [reqs EXCEPT ![r].pc = "save",
                     ![r].doc = [likes |-> Unshift(tweets[q.target].likes, q.viewer),
                                 retweets |-> tweets[q.target].retweets,
                                 v |-> tweets[q.target].v]]

\* tweet.save() after an array was replaced in memory: the whole array is
\* written ($set), guarded by the version key the document was loaded with;
\* a document that is gone or was saved by someone else in between makes
\* save() throw.
\* (faulty variant: the version key is not compared)
SaveAppliesUnversioned(r) == reqs[r].target \in DOMAIN tweets

SaveApplies(r) ==
  /\ reqs[r].target \in DOMAIN tweets
  /\ tweets[reqs[r].target].v = reqs[r].doc.v

\* await tweet.save() of like, unlike, retweet and unretweet.
TweetSave(r) ==
  LET q == reqs[r] IN
  /\ q.kind \in {"like", "unlike", "retweet", "unretweet"} /\ q.pc = "save"
  /\ UNCHANGED users /\ Quiet
  /\ IF SaveApplies(r)
     THEN /\ tweets' = [tweets EXCEPT ![q.target].likes = q.doc.likes,
                                      ![q.target].retweets = q.doc.retweets,
                                      ![q.target].v = @ + 1]
          /\ reqs' = [reqs EXCEPT ![r].pc = "user"]
     ELSE /\ UNCHANGED tweets
          /\ Finish(r, "StoreError")

\* User.findByIdAndUpdate(req.user.id, {$push: {likes: tweet._id}}).
LikeUser(r) ==
  LET q == reqs[r] IN
  /\ q.kind = "like" /\ q.pc = "user"
  /\ users' = [users EXCEPT ![q.viewer].likes = Push(@, q.target)]
  /\ Finish(r, "ok")
  /\ UNCHANGED tweets /\ Quiet

\* POST /:id/unlike, up to the first await.
UnlikeBegin(r, u, t) ==
  /\ Enter(r, "unlike", u, t, NoParams, "find", None)
  /\ UNCHANGED <<users, tweets>>

\* Tweet.findById, the 404 and 400 guards, and the filter of tweet.likes.
UnlikeFind(r) ==
  LET q == reqs[r] IN
  /\ q.kind = "unlike" /\ q.pc = "find"
  /\ UNCHANGED <<users, tweets>> /\ Quiet
  /\ IF q.target \notin DOMAIN tweets THEN Finish(r, "NotFound")
     ELSE IF ~Includes(tweets[q.target].likes, q.viewer) THEN Finish(r, "Conflict")
     ELSE reqs' = [reqs EXCEPT ![r].pc = "save",
                     ![r].doc = [likes |-> FilterOut(tweets[q.target].likes, q.viewer),
                                 retweets |-> tweets[q.target].retweets,
                                 v |-> tweets[q.target].v]]

\* User.findByIdAndUpdate(req.user.id, {$pull: {likes: tweet._id}}).
UnlikeUser(r) ==
  LET q == reqs[r] IN
  /\ q.kind = "unlike" /\ q.pc = "user"
  /\ users' = [users EXCEPT ![q.viewer].likes = Pull(@, q.target)]
  /\ Finish(r, "ok")
  /\ UNCHANGED tweets /\ Quiet

\* ------------------------------------------ retweet / unretweet (tweets.js)

\* POST /:id/retweet, up to the first await.
RetweetBegin(r, u, t) ==
  /\ Enter(r, "retweet", u, t, NoParams, "find", None)
  /\ UNCHANGED <<users, tweets>>

\* Tweet.findById, the 404 and 400 guards, and tweet.retweets.unshift.
RetweetFind(r) ==
  LET q == reqs[r] IN
  /\ q.kind = "retweet" /\ q.pc = "find"
  /\ UNCHANGED <<users, tweets>> /\ Quiet
  /\ IF q.target \notin DOMAIN tweets THEN Finish(r, "NotFound")
     ELSE IF Includes(tweets[q.target].retweets, q.viewer) THEN Finish(r, "Conflict")
     ELSE reqs' = [reqs EXCEPT ![r].pc = "save",
                     ![r].doc = [likes |-> tweets[q.target].likes,
                                 retweets |-> Unshift(tweets[q.target].retweets, q.viewer),
                                 v |-> tweets[q.target].v]]

\* User.findByIdAndUpdate(req.user.id, {$push: {retweets: tweet._id}}).
RetweetUser(r) ==
  LET q == reqs[r] IN
  /\ q.kind = "retweet" /\ q.pc = "user"
  /\ users' = [users EXCEPT ![q.viewer].retweets = Push(@, q.target)]
  /\ Finish(r, "ok")
  /\ UNCHANGED tweets /\ Quiet

\* POST /:id/unretweet, up to the first await.
UnretweetBegin(r, u, t) ==
  /\ Enter(r, "unretweet", u, t, NoParams, "find", None)
  /\ UNCHANGED <<users, tweets>>

\* Tweet.findById, the 404 and 400 guards, and the filter of tweet.retweets.
UnretweetFind(r) ==
  LET q == reqs[r] IN
  /\ q.kind = "unretweet" /\ q.pc = "find"
  /\ UNCHANGED <<users, tweets>> /\ Quiet
  /\ IF q.target \notin DOMAIN tweets THEN Finish(r, "NotFound")
     ELSE IF ~Includes(tweets[q.target].retweets, q.viewer) THEN Finish(r, "Conflict")
     ELSE reqs' = [reqs EXCEPT ![r].pc = "save",
                     ![r].doc = [likes |-> tweets[q.target].likes,
                                 retweets |-> FilterOut(tweets[q.target].retweets, q.viewer),
                                 v |-> tweets[q.target].v]]

\* User.findByIdAndUpdate(req.user.id, {$pull: {retweets: tweet._id}}).
UnretweetUser(r) ==
  LET q == reqs[r] IN
  /\ q.kind = "unretweet" /\ q.pc = "user"
  /\ users' = [users EXCEPT ![q.viewer].retweets = Pull(@, q.target)]
  /\ Finish(r, "ok")
  /\ UNCHANGED tweets /\ Quiet

\* ------------------------------------------- follow / unfollow (users.js)

\* `req.params.id === req.user.id`
\* (faulty variant: the guard never fires)
SelfTargetNever(u, v) == FALSE

SelfTarget(u, v) == v = u

\* POST /:id/follow up to the first await: the self-follow guard runs
\* before User.findById.
FollowBegin(r, u, v) ==
  /\ IF SelfTarget(u, v) THEN Enter(r, "follow", u, v, NoParams, "respond", "Invalid")
              ELSE Enter(r, "follow", u, v, NoParams, "find", None)
  /\ UNCHANGED <<users, tweets>>

\* `req.user.following.includes(req.params.id)`: the guard reads the viewer
\* document auth loaded, not the stored one.
IsFollowing(q) == Includes(q.following, q.target)

\* User.findById(req.params.id), the 404 guard and the already-following guard.
FollowFind(r) ==
  LET q == reqs[r] IN
  /\ q.kind = "follow" /\ q.pc = "find"
  /\ UNCHANGED <<users, tweets>> /\ Quiet
  /\ IF q.target \notin Users THEN Finish(r, "NotFound")
     ELSE IF IsFollowing(q) THEN Finish(r, "Conflict")
     ELSE reqs' = [reqs EXCEPT ![r].pc = "w1"]

\* User.findByIdAndUpdate(req.user.id, {$push: {following: req.params.id}}).
FollowFollowing(r) ==
  LET q == reqs[r] IN
  /\ q.kind = "follow" /\ q.pc = "w1"
  /\ users' = [users EXCEPT ![q.viewer].following = Push(@, q.target)]
  /\ reqs' = [reqs EXCEPT ![r].pc = "w2"]
  /\ UNCHANGED tweets /\ Quiet

\* User.findByIdAndUpdate(req.params.id, {$push: {followers: req.user.id}}).
\* (faulty variant: the update is addressed to req.user.id)
FollowFollowersOfViewer(r) ==
  LET q == reqs[r] IN
  /\ q.kind = "follow" /\ q.pc = "w2"
  /\ users' = [users EXCEPT ![q.viewer].followers = Push(@, q.viewer)]
  /\ Finish(r, "ok")
  /\ UNCHANGED tweets /\ Quiet

FollowFollowers(r) ==
  LET q == reqs[r] IN
  /\ q.kind = "follow" /\ q.pc = "w2"
  /\ users' = [users EXCEPT ![q.target].followers = Push(@, q.viewer)]
  /\ Finish(r, "ok")
  /\ UNCHANGED tweets /\ Quiet

\* POST /:id/unfollow up to the first await.
UnfollowBegin(r, u, v) ==
  /\ IF SelfTarget(u, v) THEN Enter(r, "unfollow", u, v, NoParams, "respond", "Invalid")
              ELSE Enter(r, "unfollow", u, v, NoParams, "find", None)
  /\ UNCHANGED <<users, tweets>>

\* User.findById(req.params.id), the 404 guard and the not-following guard.
UnfollowFind(r) ==
  LET q == reqs[r] IN
  /\ q.kind = "unfollow" /\ q.pc = "find"
  /\ UNCHANGED <<users, tweets>> /\ Quiet
  /\ IF q.target \notin Users THEN Finish(r, "NotFound")
     ELSE IF ~IsFollowing(q) THEN Finish(r, "Conflict")
     ELSE reqs' = [reqs EXCEPT ![r].pc = "w1"]

\* User.findByIdAndUpdate(req.user.id, {$pull: {following: req.params.id}}).
UnfollowFollowing(r) ==
  LET q == reqs[r] IN
  /\ q.kind = "unfollow" /\ q.pc = "w1"
  /\ users' = [users EXCEPT ![q.viewer].following = Pull(@, q.target)]
  /\ reqs' = [reqs EXCEPT ![r].pc = "w2"]
  /\ UNCHANGED tweets /\ Quiet

\* User.findByIdAndUpdate(req.params.id, {$pull: {followers: req.user.id}}).
UnfollowFollowers(r) ==
  LET q == reqs[r] IN
  /\ q.kind = "unfollow" /\ q.pc = "w2"
  /\ users' = [users EXCEPT ![q.target].followers = Pull(@, q.viewer)]
  /\ Finish(r, "ok")
  /\ UNCHANGED tweets /\ Quiet

\* ------------------------------------------------ POST /api/tweets (create)

\* A character outside the Basic Multilingual Plane: one character for
\* express-validator's isLength, two UTF-16 units for String.length.
Astral == "U+1F600"

\* The characters of a content, as isLength counts them (a surrogate pair
\* counts once), and its String.length, which maxlength compares.
Chars(c) == Len(c)
Units(c) == Len(c) + Cardinality({i \in 1..Len(c) : c[i] = Astral})

\* check('content').not().isEmpty().isLength({ max: 280 })
ValidatorMax == 280
\* (faulty variant: the length is not checked)
ValidatedNotEmpty(c) == c # <<>>

Validated(c) == c # <<>> /\ Chars(c) <= ValidatorMax

\* trim: true of TweetSchema.content.
Trim(c) ==
  LET inked == {i \in 1..Len(c) : c[i] # " "}
  IN IF inked = {} THEN <<>>
     ELSE SubSeq(c, CHOOSE i \in inked : \A j \in inked : i <= j,
                    CHOOSE i \in inked : \A j \in inked : i >= j)

\* required: true and maxlength: 280 of TweetSchema.content, on the trimmed
\* string.
SchemaMaxlength == 280
SchemaValid(c) == c # <<>> /\ Units(c) <= SchemaMaxlength

\* The ids new documents get, in the order they are given out.
IdOrder == <<"t1", "t2", "t3", "t4", "t5", "t6", "t7", "t8">>
Fresh == {i \in 1..Len(IdOrder) : IdOrder[i] \notin minted}
NextId == IdOrder[CHOOSE i \in Fresh : \A j \in Fresh : i <= j]

\* timestamps: true sets createdAt to the time of the save.  Creations here
\* fall in different milliseconds; the feed stores cover equal timestamps.
Clock == Cardinality(minted)

\* POST / up to the first await: express-validator has run before the
\* handler and a failed check answers 400; a reply first looks its parent up.
CreateBegin(r, u, b) ==
  /\ Fresh # {}
  /\ IF ~Validated(b.content)
     THEN EnterWith(r, "create", u, None, NoParams, b, "respond", "ValidationError")
     ELSE EnterWith(r, "create", u, None, NoParams, b,
                    IF b.replyToId # None THEN "parent" ELSE "insert", None)
  /\ UNCHANGED <<users, tweets>>

\* Tweet.findById(replyToId) and its 404.
CreateParent(r) ==
  LET q == reqs[r] IN
  /\ q.kind = "create" /\ q.pc = "parent"
  /\ UNCHANGED <<users, tweets>> /\ Quiet
  /\ IF q.body.replyToId \notin DOMAIN tweets THEN Finish(r, "NotFound")
     ELSE reqs' = [reqs EXCEPT ![r].pc = "insert"]

\* newTweet.save(): schema validation (a rejection is thrown into the catch
\* block, which answers 500), then the insert.  The populate calls that
\* follow read the author and the parent for the response only.
CreateSave(r) ==
  LET q == reqs[r]
      c == Trim(q.body.content)
  IN
  /\ q.kind = "create" /\ q.pc = "insert"
  /\ UNCHANGED <<users, started, serial, failed, gap, pre, last>>
  /\ IF ~SchemaValid(c)
     THEN /\ Finish(r, "StoreError")
          /\ UNCHANGED <<tweets, minted>>
     ELSE /\ tweets' = [x \in DOMAIN tweets \cup {NextId} |->
                          IF x = NextId
                          THEN NewTweet(q.viewer, c, q.body.image,
                                        q.body.replyToId, Clock + 1)
                          ELSE tweets[x]]
          /\ minted' = minted \cup {NextId}
          /\ reqs' = [reqs EXCEPT ![r].pc = "respond", ![r].result = "ok",
                                  ![r].target = NextId]

\* --------------------------------------------- DELETE /api/tweets/:id

\* DELETE /:id up to the first await.
DeleteBegin(r, u, t) ==
  /\ Enter(r, "delete", u, t, NoParams, "find", None)
  /\ UNCHANGED <<users, tweets>>

\* `tweet.user.toString() !== req.user.id`, negated.
\* (faulty variant: anybody passes)
OwnsAlways(tw, u) == TRUE

Owns(tw, u) == tw.user = u

\* Tweet.findById, the 404 and the ownership check (401).
DeleteFind(r) ==
  LET q == reqs[r] IN
  /\ q.kind = "delete" /\ q.pc = "find"
  /\ UNCHANGED <<users, tweets>> /\ Quiet
  /\ IF q.target \notin DOMAIN tweets THEN Finish(r, "NotFound")
     ELSE IF ~Owns(tweets[q.target], q.viewer) THEN Finish(r, "Unauthorized")
     ELSE reqs' = [reqs EXCEPT ![r].pc = "remove"]

\* tweet.deleteOne(): the document with this _id is removed if it is still
\* there; nothing else is touched.
DeleteRemove(r) ==
  LET q == reqs[r] IN
  /\ q.kind = "delete" /\ q.pc = "remove"
  /\ tweets' = [x \in DOMAIN tweets \ {q.target} |-> tweets[x]]
  /\ Finish(r, "ok")
  /\ UNCHANGED users /\ Quiet

\* ------------------------------------------------ GET /api/tweets (feed)

\* Case folding of the 'i' option of $regex.
Lower(c) == CASE c = "A" -> "a" [] c = "B" -> "b" [] OTHER -> c

\* { $regex: query, $options: 'i' } for a query of literal characters: the
\* content contains the query, ignoring case.
ContainsCI(content, query) ==
  \E i \in 0..(Len(content) - Len(query)) :
    \A j \in 1..Len(query) : Lower(content[i + j]) = Lower(query[j])

\* The number a string of decimal digits denotes: what `page - 1`, `* limit`
\* and parseInt(limit) make of a query parameter.
RECURSIVE Decimal(_)
Decimal(ds) ==
  IF ds = <<>> THEN 0
  ELSE Decimal(SubSeq(ds, 1, Len(ds) - 1)) * 10 + ds[Len(ds)]

\* const { page = 1, limit = 10 } = req.query
DefaultPage == 1
DefaultLimit == 10
PageOf(p) == IF p.page = <<>> THEN DefaultPage ELSE Decimal(p.page)
LimitOf(p) == IF p.limit = <<>> THEN DefaultLimit ELSE Decimal(p.limit)

\* const skip = (page - 1) * limit
\* (faulty variant: page is not decremented)
SkipPageTimesLimit(p) == PageOf(p) * LimitOf(p)

Skip(p) == (PageOf(p) - 1) * LimitOf(p)

\* .skip(skip).limit(parseInt(limit)) on a sorted cursor (limit 0: no limit).
Page(order, skip, limit) ==
  LET hi == IF limit = 0 \/ skip + limit > Len(order)
            THEN Len(order) ELSE skip + limit
  IN SubSeq(order, skip + 1, hi)

\* User.findOne({ username }): usernames are the user ids here.
UserByName(name) == IF name \in Users THEN name ELSE None

\* matchCriteria as built from the query: user, content, image and replyTo.
\* (faulty variant: the type decides the reply filter before replyToId does)
MatchCriteriaTypeFirst(p, uid) ==
  [user |-> IF p.username # None THEN uid ELSE None,
   query |-> p.query,
   media |-> p.type = "media",
   replyTo |-> IF p.type \in {None, "tweets"} THEN "absent"
               ELSE IF p.replyToId # None THEN p.replyToId
               ELSE "any"]

MatchCriteria(p, uid) ==
  [user |-> IF p.username # None THEN uid ELSE None,
   query |-> p.query,
   media |-> p.type = "media",
   replyTo |-> IF p.replyToId # None THEN p.replyToId
               ELSE IF p.type \in {None, "tweets"} THEN "absent"
               ELSE "any"]

\* Whether a stored tweet satisfies matchCriteria.
Matches(tw, c) ==
  /\ c.user # None => tw.user = c.user
  /\ c.query # <<>> => ContainsCI(tw.content, c.query)
  /\ c.media => tw.image # ""
  /\ c.replyTo = "absent" => tw.replyTo = None
  /\ c.replyTo \notin {"any", "absent"} => tw.replyTo = c.replyTo

\* The condition of the home-timeline branch.
\* (faulty variant: the type is not looked at)
IsHomeAnyType(p) ==
  p.username = None /\ p.query = <<>> /\ p.replyToId = None

IsHome(p) ==
  /\ p.username = None /\ p.query = <<>> /\ p.replyToId = None
  /\ p.type \in {None, "tweets"}

\* Tweet.find(..) of the home timeline: authors are req.user.following plus
\* the viewer, replies excluded.
\* (faulty variant: replies are not excluded)
HomeMatchesWithReplies(tw, q) ==
  tw.user = q.viewer \/ Includes(q.following, tw.user)
HomeMatches(tw, q) ==
  /\ tw.user = q.viewer \/ Includes(q.following, tw.user)
  /\ tw.replyTo = None

\* case 'likes' returns from inside the switch only `if (username)`.
\* (faulty variant: the username is not looked at)
LikesBranchAnyUser(q) == q.params.type = "likes"

\* The tweets one Tweet.find of the handler selects.
LikesBranch(q) == q.params.type = "likes" /\ q.params.username # None

\* (faulty variant: the likes branch also applies matchCriteria)
SelectedLikesFiltered(q) ==
  IF LikesBranch(q)
  THEN {t \in DOMAIN tweets :
          Includes(q.ids, t) /\ Matches(tweets[t], MatchCriteria(q.params, q.uid))}
  ELSE IF IsHome(q.params) THEN {t \in DOMAIN tweets : HomeMatches(tweets[t], q)}
  ELSE {t \in DOMAIN tweets : Matches(tweets[t], MatchCriteria(q.params, q.uid))}
Selected(q) ==
  IF LikesBranch(q) THEN {t \in DOMAIN tweets : Includes(q.ids, t)}
  ELSE IF IsHome(q.params) THEN {t \in DOMAIN tweets : HomeMatches(tweets[t], q)}
  ELSE {t \in DOMAIN tweets : Matches(tweets[t], MatchCriteria(q.params, q.uid))}

\* .sort({ createdAt: -1 }): every enumeration of S by descending createdAt;
\* tweets with equal createdAt come in an order the store chooses.
\* (faulty variant: ascending createdAt)
SortedAscending(S) ==
  {o \in [1..Cardinality(S) -> S] :
     /\ \A i, j \in 1..Cardinality(S) : o[i] = o[j] => i = j
     /\ \A i, j \in 1..Cardinality(S) :
          i < j => tweets[o[i]].createdAt <= tweets[o[j]].createdAt}
SortedOrders(S) ==
  {o \in [1..Cardinality(S) -> S] :
     /\ \A i, j \in 1..Cardinality(S) : o[i] = o[j] => i = j
     /\ \A i, j \in 1..Cardinality(S) :
          i < j => tweets[o[i]].createdAt >= tweets[o[j]].createdAt}

\* A replyTo that was not populated: the parent's id, not a document.
Unpopulated == "id"

\* .populate({ path: 'replyTo', populate: { path: 'user' } }): tweet.replyTo
\* becomes the parent document with its author, or null when the parent is
\* gone; it is undefined when the tweet has no replyTo.  The model keeps the
\* parent's author, or None for null and undefined.  The home-timeline
\* query does not populate replyTo, which then stays the parent's id.
\* (faulty variant: the id of a parent that is gone is left in place)
PopulatedLeavesDangling(t, home) ==
  IF tweets[t].replyTo = None THEN None
  ELSE IF home \/ tweets[t].replyTo \notin DOMAIN tweets THEN Unpopulated
  ELSE tweets[tweets[t].replyTo].user

Populated(t, home) ==
  IF tweets[t].replyTo = None THEN None
  ELSE IF home THEN Unpopulated
  ELSE IF tweets[t].replyTo \in DOMAIN tweets
       THEN tweets[tweets[t].replyTo].user
       ELSE None

\* One document of the query result, as loaded.
Loaded(t, home) ==
  [id |-> t, likes |-> tweets[t].likes, retweets |-> tweets[t].retweets,
   parent |-> Populated(t, home)]

\* Tweet.countDocuments({ replyTo: tweet._id })
\* (faulty variant: every stored reply is counted, whatever it replies to)
CountRepliesToAny(t) ==
  Cardinality({x \in DOMAIN tweets : tweets[x].replyTo # None})

RepliesTo(t) == {x \in DOMAIN tweets : tweets[x].replyTo = t}

CountReplies(t) == Cardinality({x \in DOMAIN tweets : tweets[x].replyTo = t})

\* if (tweet.replyTo) { replyToUser = { _id: tweet.replyTo.user._id, .. } }
\* reads a property of undefined, a TypeError, when tweet.replyTo is an id
\* and not a document.
Throws(d) == d.parent = Unpopulated

\* One element of addUserInteractionInfo's result.
View(d, viewer) ==
  [id |-> d.id,
   isLiked |-> Includes(d.likes, viewer),
   isRetweeted |-> Includes(d.retweets, viewer),
   likesCount |-> Len(d.likes),
   retweetsCount |-> Len(d.retweets),
   commentsCount |-> CountReplies(d.id),
   replyToUser |-> d.parent]

\* GET / up to the first await: with a username the first store access is
\* User.findOne, otherwise it is the Tweet.find.
FeedBegin(r, u, p) ==
  /\ Enter(r, "feed", u, None, p,
           IF p.username # None THEN "user" ELSE "find", None)
  /\ UNCHANGED <<users, tweets>>

\* User.findOne({ username }) of the username filter, and its 404.
FeedUser(r) ==
  LET q == reqs[r] IN
  /\ q.kind = "feed" /\ q.pc = "user"
  /\ UNCHANGED <<users, tweets>> /\ Quiet
  /\ IF UserByName(q.params.username) = None THEN Finish(r, "NotFound")
     ELSE reqs' = [reqs EXCEPT ![r].uid = UserByName(q.params.username),
                     ![r].pc = IF q.params.type = "likes" THEN "likes" ELSE "find"]

\* case 'likes' with a username: the second User.findOne, whose `likes`
\* array the Tweet.find that follows selects by.
FeedLikes(r) ==
  LET q == reqs[r] IN
  /\ q.kind = "feed" /\ q.pc = "likes"
  /\ UNCHANGED <<users, tweets>> /\ Quiet
  /\ IF UserByName(q.params.username) = None THEN Finish(r, "NotFound")
     ELSE reqs' = [reqs EXCEPT ![r].ids = users[UserByName(q.params.username)].likes,
                     ![r].pc = "find"]

\* Tweet.find(..).populate(..).sort({createdAt: -1}).skip(skip).limit(..).
\* On the home timeline the viewer's id is first pushed onto
\* req.user.following, the array in memory, which is never saved.  Then
\* addUserInteractionInfo maps over the result and every callback runs up to
\* its countDocuments; an empty result needs no lookup.
FeedFind(r) ==
  LET q == reqs[r] IN
  /\ q.kind = "feed" /\ q.pc = "find"
  /\ UNCHANGED <<users, tweets>> /\ Quiet
  /\ \E order \in SortedOrders(Selected(q)) :
       LET page == Page(order, Skip(q.params), LimitOf(q.params))
           home == ~LikesBranch(q) /\ IsHome(q.params)
       IN reqs' = [reqs EXCEPT
                     ![r].following = IF home THEN Push(@, q.viewer) ELSE @,
                     ![r].full = order,
                     ![r].found = [i \in 1..Len(page) |-> Loaded(page[i], home)],
                     ![r].views = [i \in 1..Len(page) |-> NoView],
                     ![r].counted = [i \in 1..Len(page) |-> {}],
                     ![r].pc = IF page = <<>> THEN "respond" ELSE "annotate",
                     ![r].result = IF page = <<>> THEN "ok" ELSE None]

\* Promise.all keeps the value of the i-th callback at index i.
\* (faulty variant: values are kept in the order the callbacks finish)
PlaceAsFinished(views, i, v) ==
  LET k == Cardinality({j \in 1..Len(views) : views[j] # NoView}) + 1
  IN [views EXCEPT ![k] = v]

Place(views, i, v) == [views EXCEPT ![i] = v]

\* The countDocuments of the i-th callback resolves (in any order among the
\* callbacks) and the callback returns its view; when the last one has
\* returned, Promise.all resolves and the handler answers with the list.
\* A callback that throws rejects Promise.all, and the catch block of GET /
\* answers 500 without a list.
FeedCount(r, i) ==
  LET q == reqs[r]
      views == Place(q.views, i, View(q.found[i], q.viewer))
      last_ == Len(q.done) + 1 = Len(q.found)
  IN
  /\ q.kind = "feed" /\ q.pc = "annotate"
  /\ i \in 1..Len(q.found) /\ ~Includes(q.done, i)
  /\ UNCHANGED <<users, tweets>> /\ Quiet
  /\ IF Throws(q.found[i])
     THEN reqs' = [reqs EXCEPT
                     ![r].done = Append(q.done, i),
                     ![r].counted[i] = RepliesTo(q.found[i].id),
                     ![r].pc = "respond",
                     ![r].result = "StoreError"]
     ELSE reqs' = [reqs EXCEPT
                     ![r].views = views,
                     ![r].done = Append(q.done, i),
                     ![r].counted[i] = RepliesTo(q.found[i].id),
                     ![r].out = IF last_ THEN views ELSE @,
                     ![r].pc = IF last_ THEN "respond" ELSE @,
                     ![r].result = IF last_ THEN "ok" ELSE @]

\* A countDocuments rejects: Promise.all rejects at once, the await throws
\* into the catch block of GET /, which answers 500 without a list.
CountFails(r) ==
  /\ reqs[r].kind = "feed" /\ reqs[r].pc = "annotate"
  /\ Finish(r, "StoreError")
  /\ UNCHANGED <<users, tweets>> /\ Quiet

\* --------------------------------------------------- failures, responses

\* The request in slot r is a like, retweet or follow whose first write was
\* acknowledged and whose second write is pending, and no other action of
\* the viewer on the same target was in flight together with it.
HalfDone(r) ==
  /\ reqs[r].kind \in {"like", "retweet", "follow"}
  /\ reqs[r].pc \in {"user", "w2"}
  /\ ~reqs[r].mixed

\* What is remembered of it: `clean` tells that the mirrored array does not
\* hold the id the second write was to add.
HalfDoneAdd(r) ==
  LET q == reqs[r]
      mirror == MirrorList(Store, q.kind, q.viewer, q.target)
  IN [kind |-> q.kind, viewer |-> q.viewer, target |-> q.target,
      clean |-> ~Includes(mirror, IF q.kind = "follow" THEN q.viewer ELSE q.target)]

\* A store write rejects: the await throws into the handler's catch block,
\* which answers 500; nothing the handler wrote before is undone.
\* (faulty variant: the store is put back as the request found it)
WriteFailsUndoing(r) ==
  /\ reqs[r].pc \in {"save", "user", "w1", "w2", "insert", "remove"}
  /\ Finish(r, "StoreError")
  /\ failed' = TRUE
  /\ gap' = IF HalfDone(r) THEN gap \cup {HalfDoneAdd(r)} ELSE gap
  /\ users' = pre.users /\ tweets' = pre.tweets
  /\ UNCHANGED <<started, serial, minted, pre, last>>

WriteFails(r) ==
  /\ reqs[r].pc \in {"save", "user", "w1", "w2", "insert", "remove"}
  /\ Finish(r, "StoreError")
  /\ failed' = TRUE
  /\ gap' = IF HalfDone(r) THEN gap \cup {HalfDoneAdd(r)} ELSE gap
  /\ UNCHANGED <<users, tweets, started, serial, minted, pre, last>>

\* res.json / res.status(..).json: the request leaves its slot.
Respond(r) ==
  LET q == reqs[r] IN
  /\ q.pc = "respond"
  /\ reqs' = [reqs EXCEPT ![r] = Idle]
  /\ last' = IF serial
             THEN [kind |-> q.kind, viewer |-> q.viewer, target |-> q.target,
                   result |-> q.result,
                   before |-> OwnList(pre, q.kind, q.viewer, q.target),
                   mirror |-> MirrorList(pre, q.kind, q.viewer, q.target)]
             ELSE last
  /\ UNCHANGED <<users, tweets, started, serial, minted, failed, gap, pre>>

\* ------------------------------------------------------------------ spec

InitUsers == [u \in Users |-> NewUser]

\* Two tweets posted earlier by u1, nothing liked, nobody followed.
InitTweets == [t \in TweetIds |-> NewTweet("u1", <<"a">>, "", None, 1)]

InitStore ==
  /\ users = InitUsers
  /\ tweets = InitTweets
  /\ reqs = [r \in Slots |-> Idle]
  /\ started = 0
  /\ minted = TweetIds
  /\ failed = FALSE
  /\ gap = {}
  /\ pre = Store
  /\ last = NoLast

Init == InitStore /\ serial = FALSE

SeqInit == InitStore /\ serial = TRUE

\* The viewers and targets of the social actions that are tried; the
\* follows are u1 of itself, and u1 and u2 of u3.
Viewers == {"u1", "u2"}
TweetTargets == {"t1"}
FollowPairs == {<<"u1", "u1">>, <<"u1", "u3">>, <<"u2", "u3">>}

Next ==
  \/ \E r \in Slots, u \in Viewers, t \in TweetTargets : LikeBegin(r, u, t)
  \/ \E r \in Slots, u \in Viewers, t \in TweetTargets : UnlikeBegin(r, u, t)
  \/ \E r \in Slots, u \in Viewers, t \in TweetTargets : RetweetBegin(r, u, t)
  \/ \E r \in Slots, u \in Viewers, t \in TweetTargets : UnretweetBegin(r, u, t)
  \/ \E r \in Slots, p \in FollowPairs : FollowBegin(r, p[1], p[2])
  \/ \E r \in Slots, p \in FollowPairs : UnfollowBegin(r, p[1], p[2])
  \/ \E r \in Slots : LikeFind(r)
  \/ \E r \in Slots : UnlikeFind(r)
  \/ \E r \in Slots : RetweetFind(r)
  \/ \E r \in Slots : UnretweetFind(r)
  \/ \E r \in Slots : TweetSave(r)
  \/ \E r \in Slots : LikeUser(r)
  \/ \E r \in Slots : UnlikeUser(r)
  \/ \E r \in Slots : RetweetUser(r)
  \/ \E r \in Slots : UnretweetUser(r)
  \/ \E r \in Slots : FollowFind(r)
  \/ \E r \in Slots : FollowFollowing(r)
  \/ \E r \in Slots : FollowFollowers(r)
  \/ \E r \in Slots : UnfollowFind(r)
  \/ \E r \in Slots : UnfollowFollowing(r)
  \/ \E r \in Slots : UnfollowFollowers(r)
  \/ \E r \in Slots : WriteFails(r)
  \/ \E r \in Slots : Respond(r)

Spec == Init /\ [][Next]_vars

SeqSpec == SeqInit /\ [][Next]_vars

\* --------------------------------------------------------- feed requests

\* The stores the feed is read from: u1 is the viewer and follows nobody,
\* u2, or u2 and u3; t1 and t3 are u2's, t2 is u3's or the viewer's and is
\* top-level, a reply to t1 or a reply to a tweet since deleted; t3 was
\* created after t2 or in the same millisecond; u2 has liked nothing or some
\* tweets in some order (one of them since deleted).
FeedTweetIds == {"t1", "t2", "t3"}

FeedFollowing == {<<>>, <<"u2">>, <<"u2", "u3">>}
FeedLikeLists == {<<>>, <<"t3", "t1">>, <<"t1", "t2", "t3">>, <<"t2", GhostTweet>>}

FeedUsers(fol, lk) ==
  [u \in Users |->
     [NewUser EXCEPT
        !.following = IF u = "u1" THEN fol ELSE <<>>,
        !.followers = IF Includes(fol, u) THEN <<"u1">> ELSE <<>>,
        !.likes = IF u = "u2" THEN lk ELSE <<>>]]

FeedTweets(a2, re2, at3, lk) ==
  LET base == [t \in FeedTweetIds |->
                 CASE t = "t1" -> NewTweet("u2", <<"A", "b">>, "img", None, 1)
                   [] t = "t2" -> NewTweet(a2, <<"b">>, "img", re2, 2)
                   [] OTHER    -> NewTweet("u2", <<"a">>, "", None, at3)]
  IN [t \in FeedTweetIds |->
        [base[t] EXCEPT !.likes = IF Includes(lk, t) THEN <<"u2">> ELSE <<>>]]

FeedInit ==
  /\ \E fol \in FeedFollowing, lk \in FeedLikeLists :
       /\ users = FeedUsers(fol, lk)
       /\ \E a2 \in {"u3", "u1"}, re2 \in {None, "t1", GhostTweet}, at3 \in {2, 3} :
            tweets = FeedTweets(a2, re2, at3, lk)
  /\ reqs = [r \in Slots |-> Idle]
  /\ started = MaxSerial - 1   \* the store is what earlier requests left
  /\ minted = FeedTweetIds \cup {GhostTweet}
  /\ failed = FALSE
  /\ gap = {}
  /\ serial = TRUE
  /\ pre = Store
  /\ last = NoLast

\* The queries that are tried.
FeedParams ==
  [username : {None, "u2", GhostUser},
   query : {<<>>, <<"a">>},
   type : {None, "tweets", "replies", "media", "likes"},
   replyToId : {None, "t1"},
   page : {<<>>, <<2>>, <<4>>},
   limit : {<<>>, <<1>>, <<2>>, <<1, 0>>}]

FeedNext ==
  \/ \E r \in Slots : CanEnter(r) /\ \E p \in FeedParams : FeedBegin(r, "u1", p)
  \/ \E r \in Slots : FeedUser(r)
  \/ \E r \in Slots : FeedLikes(r)
  \/ \E r \in Slots : FeedFind(r)
  \/ \E r \in Slots, i \in 1..Cardinality(FeedTweetIds) : FeedCount(r, i)
  \/ \E r \in Slots : Respond(r)

FeedSpec == FeedInit /\ [][FeedNext]_vars

\* ------------------------------------------- feed requests and replies

\* The stores the reply filters are read from: the viewer u1 follows nobody
\* or u2; t1 and t3 are top-level tweets of u2; t2 is u2's or u3's and is
\* top-level, a reply to t1 or a reply to a tweet since deleted; u2 has
\* liked nothing, or t2 and a tweet since deleted.
ReplyFollowing == {<<>>, <<"u2">>}
ReplyLikeLists == {<<>>, <<"t2", GhostTweet>>}

ReplyInit ==
  /\ \E fol \in ReplyFollowing, lk \in ReplyLikeLists :
       /\ users = FeedUsers(fol, lk)
       /\ \E a2 \in {"u2", "u3"}, re2 \in {None, "t1", GhostTweet} :
            tweets = FeedTweets(a2, re2, 3, lk)
  /\ reqs = [r \in Slots |-> Idle]
  /\ started = MaxSerial - 1   \* the store is what earlier requests left
  /\ minted = FeedTweetIds \cup {GhostTweet}
  /\ failed = FALSE
  /\ gap = {}
  /\ serial = TRUE
  /\ pre = Store
  /\ last = NoLast

\* The queries that are tried: every type, with and without a username, a
\* search query and a replyToId (of a stored tweet, of a deleted one).
ReplyParams ==
  [username : {None, "u2"},
   query : {<<>>, <<"a">>},
   type : {None, "tweets", "replies", "media", "likes"},
   replyToId : {None, "t1", GhostTweet},
   page : {<<>>},
   limit : {<<>>}]

ReplyNext ==
  \/ \E r \in Slots : CanEnter(r) /\ \E p \in ReplyParams : FeedBegin(r, "u1", p)
  \/ \E r \in Slots : FeedUser(r)
  \/ \E r \in Slots : FeedLikes(r)
  \/ \E r \in Slots : FeedFind(r)
  \/ \E r \in Slots, i \in 1..Cardinality(FeedTweetIds) : FeedCount(r, i)
  \/ \E r \in Slots : Respond(r)

ReplySpec == ReplyInit /\ [][ReplyNext]_vars

\* ------------------------------------- follow graph and home timeline

\* Follow and unfollow requests in flight together with home-timeline reads.
GraphNext ==
  \/ \E r \in Slots, p \in FollowPairs : FollowBegin(r, p[1], p[2])
  \/ \E r \in Slots, p \in FollowPairs : UnfollowBegin(r, p[1], p[2])
  \/ \E r \in Slots : FollowFind(r)
  \/ \E r \in Slots : FollowFollowing(r)
  \/ \E r \in Slots : FollowFollowers(r)
  \/ \E r \in Slots : UnfollowFind(r)
  \/ \E r \in Slots : UnfollowFollowing(r)
  \/ \E r \in Slots : UnfollowFollowers(r)
  \/ \E r \in Slots, u \in Viewers : FeedBegin(r, u, NoParams)
  \/ \E r \in Slots : FeedFind(r)
  \/ \E r \in Slots, i \in 1..Cardinality(TweetIds) : FeedCount(r, i)
  \/ \E r \in Slots : WriteFails(r)
  \/ \E r \in Slots : Respond(r)

GraphSpec == Init /\ [][GraphNext]_vars

\* -------------------------------------------- create, delete and feed

\* Runs of create, delete and feed requests: t1 is a tweet of u1 and t2 a
\* reply of u2 to it.
LiveTweets ==
  [t \in TweetIds |->
     IF t = "t1" THEN NewTweet("u1", <<"a">>, "", None, 1)
     ELSE NewTweet("u2", <<"b">>, "", "t1", 2)]

LiveStore ==
  /\ users = InitUsers
  /\ tweets = LiveTweets
  /\ reqs = [r \in Slots |-> Idle]
  /\ started = 0
  /\ minted = TweetIds
  /\ failed = FALSE
  /\ gap = {}
  /\ pre = Store
  /\ last = NoLast

LiveInit == LiveStore /\ serial = FALSE

SeqLiveInit == LiveStore /\ serial = TRUE

Rep(n, ch) == [i \in 1..n |-> ch]

\* The contents that are tried: none, blank, padded, one character, the
\* longest accepted, one character too many (also with the extra character
\* a trailing blank), and 280 characters that are 281 UTF-16 units.
Contents ==
  {<<>>, <<" ">>, <<" ", "a", " ">>, <<"a">>,
   Rep(ValidatorMax, "a"), Rep(ValidatorMax + 1, "a"),
   Rep(ValidatorMax, "a") \o <<" ">>,
   Rep(ValidatorMax - 1, "a") \o <<Astral>>}

\* The bodies that are tried: each content as a top-level tweet, and a short
\* tweet with an image as a reply to t1 and to a tweet that is gone.
Bodies ==
  {[content |-> c, image |-> "", replyToId |-> None] : c \in Contents}
  \cup {[content |-> <<"a">>, image |-> "img", replyToId |-> x] :
          x \in {"t1", GhostTweet}}

DeleteTargets == {"t1", "t2", "t3"}

\* Create requests of u2 and delete requests of u1 and u2.
PostNext ==
  \/ \E r \in Slots : CanEnter(r) /\ \E b \in Bodies : CreateBegin(r, "u2", b)
  \/ \E r \in Slots : CreateParent(r)
  \/ \E r \in Slots : CreateSave(r)
  \/ \E r \in Slots, u \in Viewers, t \in DeleteTargets : DeleteBegin(r, u, t)
  \/ \E r \in Slots : DeleteFind(r)
  \/ \E r \in Slots : DeleteRemove(r)
  \/ \E r \in Slots : WriteFails(r)
  \/ \E r \in Slots : Respond(r)

SeqPostSpec == SeqLiveInit /\ [][PostNext]_vars

\* Feed requests of u1 in flight together with replies being posted by u2
\* and tweets being deleted.  The feed queries that are tried: the home
\* timeline and every tweet.
LiveParams == {NoParams, [NoParams EXCEPT !.type = "replies"]}

LiveBodies ==
  {[content |-> <<"a">>, image |-> "", replyToId |-> x] : x \in {None, "t1"}}

LiveDeleteTargets == {"t2", "t3"}

LiveNext ==
  \/ \E r \in Slots : CanEnter(r) /\ \E b \in LiveBodies : CreateBegin(r, "u2", b)
  \/ \E r \in Slots : CreateParent(r)
  \/ \E r \in Slots : CreateSave(r)
  \/ \E r \in Slots, u \in Viewers, t \in LiveDeleteTargets : DeleteBegin(r, u, t)
  \/ \E r \in Slots : DeleteFind(r)
  \/ \E r \in Slots : DeleteRemove(r)
  \/ \E r \in Slots : CanEnter(r) /\ \E p \in LiveParams : FeedBegin(r, "u1", p)
  \/ \E r \in Slots : FeedFind(r)
  \/ \E r \in Slots, i \in 1..Len(IdOrder) : FeedCount(r, i)
  \/ \E r \in Slots : CountFails(r)
  \/ \E r \in Slots : WriteFails(r)
  \/ \E r \in Slots : Respond(r)

LiveSpec == LiveInit /\ [][LiveNext]_vars

\* ---------------------------------------------------------------- claims

AddKinds == {"like", "retweet", "follow"}
RemoveKinds == {"unlike", "unretweet", "unfollow"}

\* The id whose membership a social action tests: the viewer in a tweet's
\* likes/retweets, the target in the viewer's following.
Member(q) == IF q.kind \in {"follow", "unfollow"} THEN q.target ELSE q.viewer

\* The target of the request exists and, for follow/unfollow, is another user.
ProperTarget(q) ==
  IF q.kind \in {"follow", "unfollow"}
  THEN q.target \in Users /\ q.target # q.viewer
  ELSE q.target \in DOMAIN pre.tweets

WasMember(q) == Includes(OwnList(pre, q.kind, q.viewer, q.target), Member(q))

Responding(r) == reqs[r].pc = "respond"

NoDup(arr) == \A i, j \in 1..Len(arr) : arr[i] = arr[j] => i = j

\* C1: with requests running one after another, an add action (like, retweet,
\* follow) issued while the id is already in the set answers Conflict, a
\* remove action (unlike, unretweet, unfollow) issued while it is absent
\* answers Conflict, and a request that answers Conflict has changed no
\* tweet and no user.
C1_ConflictGuards ==
  serial =>
    \A r \in Slots :
      LET q == reqs[r] IN
      Responding(r) /\ q.kind \in AddKinds \cup RemoveKinds =>
        /\ (q.kind \in AddKinds /\ ProperTarget(q) /\ WasMember(q))
              => q.result = "Conflict"
        /\ (q.kind \in RemoveKinds /\ ProperTarget(q) /\ ~WasMember(q))
              => q.result = "Conflict"
        /\ q.result = "Conflict" => Store = pre

\* A second like answered with Conflict right after an unfollow of a user
\* who was not followed was answered with Conflict.
C1_Witness ==
  /\ serial
  /\ last.kind = "unfollow" /\ last.result = "Conflict"
  /\ \E r \in Slots :
       /\ Responding(r) /\ reqs[r].kind = "like"
       /\ reqs[r].result = "Conflict"
       /\ WasMember(reqs[r])

\* C2: at the moment a follow(u,v) answers success, v is in u.following and
\* u is in v.followers.
C2_FollowSuccessStored ==
  [][\A r \in Slots :
       (/\ reqs[r].kind = "follow" /\ Responding(r) /\ reqs[r].result = "ok"
        /\ reqs'[r].kind = "idle")
       => /\ Includes(users[reqs[r].viewer].following, reqs[r].target)
          /\ Includes(users[reqs[r].target].followers, reqs[r].viewer)]_vars

\* C3: like(u,t) directly followed by unlike(u,t), both successful, leaves
\* t.likes and u.likes as they were before the like, element for element.
C3_LikeUnlikeRoundTrip ==
  serial =>
    \A r \in Slots :
      LET q == reqs[r] IN
      (/\ Responding(r) /\ q.kind = "unlike" /\ q.result = "ok"
       /\ last.kind = "like" /\ last.result = "ok"
       /\ last.viewer = q.viewer /\ last.target = q.target)
      => /\ tweets[q.target].likes = last.before
         /\ users[q.viewer].likes = last.mirror

\* C4: every membership array holds each id at most once, in every state.
C4_NoDuplicates ==
  /\ \A t \in DOMAIN tweets : NoDup(tweets[t].likes) /\ NoDup(tweets[t].retweets)
  /\ \A u \in Users :
       /\ NoDup(users[u].following) /\ NoDup(users[u].followers)
       /\ NoDup(users[u].likes) /\ NoDup(users[u].retweets)

\* C5: when no write has failed and no follow/unfollow is in flight, A is in
\* B.following exactly when B is in A.followers.
C5_FollowMirror ==
  (~failed /\ \A r \in Slots : reqs[r].kind \notin {"follow", "unfollow"})
  => \A a, b \in Users :
       Includes(users[b].following, a) <=> Includes(users[a].followers, b)

\* C6: when no write has failed and no like/unlike/retweet/unretweet is in
\* flight, u is in t.likes exactly when t is in u.likes, and the same for
\* retweets (no tweet is ever deleted in these runs).
C6_LikeMirror ==
  (~failed /\ \A r \in Slots :
       reqs[r].kind \notin {"like", "unlike", "retweet", "unretweet"})
  => \A u \in Users, t \in DOMAIN tweets :
       /\ Includes(tweets[t].likes, u) <=> Includes(users[u].likes, t)
       /\ Includes(tweets[t].retweets, u) <=> Includes(users[u].retweets, t)

\* Feed claims are read off the response of a feed request; `pre` is the
\* store the request ran against.
FeedDone(r) == Responding(r) /\ reqs[r].kind = "feed"

Ids(out) == [i \in 1..Len(out) |-> out[i].id]

Range(seq) == {seq[i] : i \in 1..Len(seq)}

\* seq lists the stored tweets of S, each once.
Enumerates(seq, S) == NoDup(seq) /\ Range(seq) = S

\* seq is in descending createdAt order.
Descending(seq) ==
  \A i, j \in 1..Len(seq) :
    i < j => pre.tweets[seq[i]].createdAt >= pre.tweets[seq[j]].createdAt

\* The positive integer a one- or two-digit parameter denotes (dflt if absent).
Value(ds, dflt) ==
  IF ds = <<>> THEN dflt
  ELSE IF Len(ds) = 1 THEN ds[1] ELSE 10 * ds[1] + ds[2]

\* The items of seq from offset off on, at most lim of them.
Window(seq, off, lim) ==
  LET left == IF Len(seq) > off THEN Len(seq) - off ELSE 0
      n == IF left < lim THEN left ELSE lim
  IN [i \in 1..n |-> seq[off + i]]

HomeRequest(p) ==
  /\ p.username = None /\ p.query = <<>> /\ p.replyToId = None
  /\ p.type \in {None, "tweets"}

HomeExpected(viewer) ==
  {t \in DOMAIN pre.tweets :
     /\ pre.tweets[t].replyTo = None
     /\ \/ pre.tweets[t].user = viewer
        \/ Includes(pre.users[viewer].following, pre.tweets[t].user)}

\* V follows A and B; A posted t1, then B posted the reply t2, then A posted t3.
HomeScenario(viewer) ==
  /\ pre.users[viewer].following = <<"u2", "u3">>
  /\ pre.tweets["t2"].user = "u3" /\ pre.tweets["t2"].replyTo # None
  /\ pre.tweets["t3"].createdAt = 3

\* C7: a request with no username, query or replyToId and type absent or
\* "tweets" succeeds with, before pagination, exactly the stored top-level
\* tweets of the viewer and of the users the viewer follows, newest first;
\* in the scenario the result is [t3, t1].
C7_HomeTimeline ==
  \A r \in Slots :
    LET q == reqs[r] IN
    FeedDone(r) /\ HomeRequest(q.params) =>
      /\ q.result = "ok"
      /\ Enumerates(q.full, HomeExpected(q.viewer))
      /\ Descending(q.full)
      /\ (q.params.page = <<>> /\ q.params.limit = <<>>) => Ids(q.out) = q.full
      /\ \A i \in 1..Len(q.out) : pre.tweets[q.out[i].id].replyTo = None
      /\ (HomeScenario(q.viewer) /\ q.params.page = <<>> /\ q.params.limit = <<>>)
            => Ids(q.out) = <<"t3", "t1">>

C7_Witness ==
  \E r \in Slots :
    /\ FeedDone(r) /\ HomeRequest(reqs[r].params)
    /\ reqs[r].params.type = "tweets"
    /\ reqs[r].params.page = <<>> /\ reqs[r].params.limit = <<>>
    /\ HomeScenario(reqs[r].viewer)
    /\ Ids(reqs[r].out) = <<"t3", "t1">>

LikesRequest(p) == p.type = "likes" /\ p.username # None

\* Position of t in U's likes array: $push appends, so a later position is a
\* more recent like.
LikedAt(U, t) ==
  CHOOSE i \in 1..Len(pre.users[U].likes) :
    /\ pre.users[U].likes[i] = t
    /\ \A j \in 1..Len(pre.users[U].likes) : pre.users[U].likes[j] = t => j <= i

LikedExpected(U) ==
  {t \in DOMAIN pre.tweets : Includes(pre.users[U].likes, t)}

PageWindow(q) ==
  Window(q.full, (Value(q.params.page, 1) - 1) * Value(q.params.limit, 10),
         Value(q.params.limit, 10))

\* C8 as stated: the tweets U liked come most recently liked first, and the
\* page is cut from that ordering.
C8_LikedByLikeOrder ==
  \A r \in Slots :
    LET q == reqs[r] IN
    (FeedDone(r) /\ LikesRequest(q.params) /\ q.result = "ok") =>
      /\ \A i, j \in 1..Len(q.full) :
           i < j => LikedAt(q.params.username, q.full[i])
                      > LikedAt(q.params.username, q.full[j])
      /\ Ids(q.out) = PageWindow(q)

\* C8 amended: the tweets U liked come by descending createdAt of the tweet
\* (whatever the order of the likes), and the page is cut from that ordering.
C8_LikedByCreation ==
  \A r \in Slots :
    LET q == reqs[r] IN
    (FeedDone(r) /\ LikesRequest(q.params) /\ q.result = "ok") =>
      /\ Enumerates(q.full, LikedExpected(q.params.username))
      /\ Descending(q.full)
      /\ Ids(q.out) = PageWindow(q)

\* u2 liked t3 before t1; the answer lists t3 (created last) before t1.
C8_Witness ==
  \E r \in Slots :
    /\ FeedDone(r) /\ LikesRequest(reqs[r].params) /\ reqs[r].result = "ok"
    /\ pre.users["u2"].likes = <<"t3", "t1">>
    /\ pre.tweets["t3"].createdAt = 3
    /\ Ids(reqs[r].out) = <<"t3", "t1">>

\* C9: type "likes" with a username answers NotFound when the username
\* resolves to no user; otherwise the eligible tweets are exactly the stored
\* tweets whose id is in that user's likes, whatever query and replyToId say
\* and whoever the viewer follows.
C9_LikesBranch ==
  \A r \in Slots :
    LET q == reqs[r] IN
    (FeedDone(r) /\ LikesRequest(q.params)) =>
      IF q.params.username \notin Users
      THEN q.result = "NotFound" /\ q.out = <<>>
      ELSE /\ q.result = "ok"
           /\ Enumerates(q.full, LikedExpected(q.params.username))

\* A likes request that also carries a query and a replyToId and still is
\* answered with a liked tweet that matches neither (t3 is top-level).
C9_Witness ==
  \E r \in Slots :
    /\ FeedDone(r) /\ LikesRequest(reqs[r].params) /\ reqs[r].result = "ok"
    /\ reqs[r].params.query = <<"a">> /\ reqs[r].params.replyToId = "t1"
    /\ pre.users[reqs[r].viewer].following = <<>>
    /\ \E i \in 1..Len(reqs[r].out) : reqs[r].out[i].id = "t2"
    /\ \E i \in 1..Len(reqs[r].out) : reqs[r].out[i].id = "t3"

\* C10: every feed request whose username resolves succeeds, and its result
\* is the slice of the full matching sequence (descending createdAt) from
\* offset (page-1)*limit, at most limit items; an offset at or past the end
\* gives an empty result, not an error.
C10_Pagination ==
  \A r \in Slots :
    LET q == reqs[r] IN
    FeedDone(r) =>
      /\ q.result \in {"ok", "NotFound"}
      /\ q.result = "NotFound" <=> q.params.username \notin Users \cup {None}
      /\ q.result = "ok" =>
           /\ Descending(q.full) /\ NoDup(q.full)
           /\ Ids(q.out) = PageWindow(q)
           /\ Len(q.out) <= Value(q.params.limit, 10)
           /\ (Value(q.params.page, 1) - 1) * Value(q.params.limit, 10) >= Len(q.full)
                => q.out = <<>>

\* Three matching tweets: page 2 of 2 holds the third alone.
C10_Witness ==
  \E r \in Slots :
    /\ FeedDone(r) /\ reqs[r].result = "ok"
    /\ reqs[r].params.page = <<2>> /\ reqs[r].params.limit = <<2>>
    /\ Len(reqs[r].full) = 3
    /\ Ids(reqs[r].out) = <<reqs[r].full[3]>>

\* Three matching tweets: page 4 of 1 is empty and the request succeeds.
C10_WitnessPastEnd ==
  \E r \in Slots :
    /\ FeedDone(r) /\ reqs[r].result = "ok"
    /\ reqs[r].params.page = <<4>> /\ reqs[r].params.limit = <<1>>
    /\ Len(reqs[r].full) = 3
    /\ reqs[r].out = <<>>

\* The stored tweets a media request is to select from: those with a
\* non-empty image that pass the username, query and replyToId filters given.
MediaExpected(p) ==
  {t \in DOMAIN pre.tweets :
     /\ pre.tweets[t].image # ""
     /\ p.username # None => pre.tweets[t].user = p.username
     /\ p.query # <<>> => ContainsCI(pre.tweets[t].content, p.query)
     /\ p.replyToId # None => pre.tweets[t].replyTo = p.replyToId}

\* C11: a request with type "media" whose username (if any) resolves
\* succeeds, every tweet it returns has a non-empty image, and the tweets it
\* selects from are the stored tweets with an image that pass the other
\* filters, whoever the viewer follows; with no username, query or replyToId
\* these are all stored tweets with an image.
C11_MediaOnly ==
  \A r \in Slots :
    LET q == reqs[r] IN
    (FeedDone(r) /\ q.params.type = "media" /\ q.params.username # GhostUser) =>
      /\ q.result = "ok"
      /\ \A i \in 1..Len(q.out) : pre.tweets[q.out[i].id].image # ""
      /\ Enumerates(q.full, MediaExpected(q.params))
      /\ Ids(q.out) = PageWindow(q)
      /\ (q.params.username = None /\ q.params.query = <<>>
            /\ q.params.replyToId = None)
           => Range(q.full) = {t \in DOMAIN pre.tweets : pre.tweets[t].image # ""}

\* The viewer follows nobody and asks for media with no other filter: the
\* answer holds t1, a tweet with an image by u2, and not the image-less t3.
C11_Witness ==
  \E r \in Slots :
    /\ FeedDone(r) /\ reqs[r].params = [NoParams EXCEPT !.type = "media"]
    /\ pre.users[reqs[r].viewer].following = <<>>
    /\ pre.tweets["t1"].user = "u2"
    /\ \E i \in 1..Len(reqs[r].out) : reqs[r].out[i].id = "t1"
    /\ \A i \in 1..Len(reqs[r].out) : reqs[r].out[i].id # "t3"

\* The lookups of a feed request that have resolved.
Annotated(q) == {i \in 1..Len(q.views) : q.views[i] # NoView}

\* What a reader of the store counts as the replies to t.
StoredReplies(t) ==
  Cardinality({x \in DOMAIN tweets : tweets[x].replyTo = t})

\* The step in which the lookup for the i-th tweet of a feed request resolves
\* sets its commentsCount to the number of tweets stored at that moment whose
\* replyTo is that tweet.
C12_CountIsLive ==
  \A r \in Slots :
    \A i \in 1..Len(reqs[r].views) :
      (/\ reqs[r].kind = "feed" /\ reqs[r].views[i] = NoView
       /\ Len(reqs'[r].views) = Len(reqs[r].views)
       /\ reqs'[r].views[i] # NoView)
      => reqs'[r].views[i].commentsCount = StoredReplies(reqs[r].found[i].id)

\* The replies a resolved lookup counted: every reply to the tweet that was
\* stored when the request started and still is stored is among them, no
\* tweet deleted before the request started is, and whatever else was
\* counted was created while the request ran.
C12_CountCovers ==
  \A r \in Slots :
    LET q == reqs[r] IN
    q.kind = "feed" =>
      \A i \in Annotated(q) :
        /\ q.views[i].commentsCount = Cardinality(q.counted[i])
        /\ \A x \in DOMAIN q.snap \cap DOMAIN tweets :
             q.snap[x].replyTo = q.found[i].id => x \in q.counted[i]
        /\ \A x \in q.old \ DOMAIN q.snap : x \notin q.counted[i]
        /\ \A x \in q.counted[i] \cap q.old : q.snap[x].replyTo = q.found[i].id

C13_AnnotateOrder ==
  \A r \in Slots :
    LET q == reqs[r] IN
    FeedDone(r) =>
      /\ q.result \in {"ok", "StoreError"}
      /\ q.result = "ok" =>
           /\ Len(q.out) = Len(q.found)
           /\ \A i \in 1..Len(q.found) :
                /\ q.out[i].id = q.found[i].id
                /\ q.out[i].likesCount = Len(q.found[i].likes)
                /\ q.out[i].commentsCount = Cardinality(q.counted[i])
           /\ Range(q.done) = 1..Len(q.found)
      /\ q.result = "StoreError" => q.out = <<>>

\* Two tweets found, the lookup of the second resolved first, and the answer
\* lists them as found.
C13_Witness ==
  \E r \in Slots :
    /\ FeedDone(r) /\ reqs[r].result = "ok"
    /\ Len(reqs[r].found) = 2 /\ reqs[r].done = <<2, 1>>
    /\ reqs[r].found[1].id # reqs[r].found[2].id
    /\ Ids(reqs[r].out) = <<reqs[r].found[1].id, reqs[r].found[2].id>>

\* Two tweets found, one lookup resolved, the other failed: StoreError and
\* an empty answer.
C13_WitnessFailure ==
  \E r \in Slots :
    /\ FeedDone(r) /\ reqs[r].result = "StoreError"
    /\ Len(reqs[r].found) = 2 /\ Len(reqs[r].done) = 1
    /\ reqs[r].out = <<>>

\* A like, retweet or follow that is answering success in a serial run.
AddDone(r, kind) ==
  serial /\ Responding(r) /\ reqs[r].kind = kind /\ reqs[r].result = "ok"

\* C14 as stated: right after a successful like, retweet or follow the
\* viewer's id is the first element of t.likes, t.retweets and v.followers
\* respectively, with the other elements behind it in their old order.
C14_FrontInsertion ==
  \A r \in Slots :
    LET q == reqs[r] IN
    /\ AddDone(r, "like") =>
         tweets[q.target].likes = <<q.viewer>> \o pre.tweets[q.target].likes
    /\ AddDone(r, "retweet") =>
         tweets[q.target].retweets = <<q.viewer>> \o pre.tweets[q.target].retweets
    /\ AddDone(r, "follow") =>
         users[q.target].followers = <<q.viewer>> \o pre.users[q.target].followers

\* C14 amended: like and retweet put the viewer's id at the front of t.likes
\* and t.retweets; follow puts it at the end of v.followers (and v at the
\* end of the viewer's following); the other elements keep their order.
C14_FrontOnTweetsBackOnUsers ==
  \A r \in Slots :
    LET q == reqs[r] IN
    /\ AddDone(r, "like") =>
         tweets[q.target].likes = <<q.viewer>> \o pre.tweets[q.target].likes
    /\ AddDone(r, "retweet") =>
         tweets[q.target].retweets = <<q.viewer>> \o pre.tweets[q.target].retweets
    /\ AddDone(r, "follow") =>
         /\ users[q.target].followers = pre.users[q.target].followers \o <<q.viewer>>
         /\ users[q.viewer].following = pre.users[q.viewer].following \o <<q.target>>

\* u2 follows u3, whom u1 follows already, after u1 liked t1 and u2 liked it
\* too: t1.likes is [u2, u1] and u3.followers is [u1, u2].
C14_Witness ==
  \E r \in Slots :
    /\ AddDone(r, "follow") /\ reqs[r].viewer = "u2" /\ reqs[r].target = "u3"
    /\ pre.users["u3"].followers = <<"u1">>
    /\ users["u3"].followers = <<"u1", "u2">>
    /\ last.kind = "like" /\ last.result = "ok" /\ last.viewer = "u2"
    /\ tweets["t1"].likes = <<"u2", "u1">>

\* C15: a follow or unfollow whose target is the viewer's own id is answered
\* with InvalidOperation without ever reaching the lookup of the target or a
\* write (it is at its response from the start), whatever the viewer's
\* following holds; in a serial run the store at its response is the store
\* it started from.  No other follow or unfollow is answered that way.
C15_SelfFollowInvalid ==
  \A r \in Slots :
    LET q == reqs[r] IN
    q.kind \in {"follow", "unfollow"} =>
      /\ q.target = q.viewer =>
           /\ q.pc = "respond" /\ q.result = "Invalid"
           /\ serial => Store = pre
      /\ q.result = "Invalid" => q.target = q.viewer

\* u1, who follows somebody, asks to unfollow u1 right after asking to
\* follow u1: both are answered InvalidOperation.
C15_Witness ==
  \E r \in Slots :
    /\ Responding(r) /\ reqs[r].kind = "unfollow"
    /\ reqs[r].target = reqs[r].viewer /\ reqs[r].result = "Invalid"
    /\ users[reqs[r].viewer].following # <<>>
    /\ last.kind = "follow" /\ last.target = last.viewer
    /\ last.viewer = reqs[r].viewer /\ last.result = "Invalid"

\* C16: in every state reached by follow, unfollow and home-timeline
\* requests in any interleaving, no user's id is in that user's own stored
\* following or followers.
C16_NoSelfFollow ==
  \A u \in Users :
    ~Includes(users[u].following, u) /\ ~Includes(users[u].followers, u)

\* A home-timeline request of u1, who follows u3, has pushed u1 onto the
\* following array it holds in memory while a follow by u1 is in flight; the
\* stored following of u1 is without u1.
C16_Witness ==
  \E r, r2 \in Slots :
    /\ reqs[r].kind = "feed" /\ reqs[r].viewer = "u1"
    /\ reqs[r].pc \in {"annotate", "respond"}
    /\ reqs[r].following = <<"u3", "u1">>
    /\ reqs[r2].kind = "follow" /\ reqs[r2].viewer = "u1"
    /\ reqs[r2].following = <<"u3">>
    /\ Includes(users["u1"].following, "u3")
    /\ ~Includes(users["u1"].following, "u1")

\* C17: every stored tweet has a content of at least 1 and at most 280
\* characters (also counted in UTF-16 units); a create request whose content
\* has 281 characters is answered with ValidationError, and a create request
\* that is not answered with success has stored nothing.
C17_ContentLength ==
  /\ \A t \in DOMAIN tweets :
       /\ Chars(tweets[t].content) >= 1
       /\ Chars(tweets[t].content) <= ValidatorMax
       /\ Units(tweets[t].content) <= SchemaMaxlength
  /\ \A r \in Slots :
       LET q == reqs[r] IN
       (serial /\ Responding(r) /\ q.kind = "create") =>
         /\ Chars(q.body.content) = ValidatorMax + 1
              => q.result = "ValidationError"
         /\ q.result # "ok" => tweets = pre.tweets
         /\ q.result = "ok" =>
              /\ DOMAIN tweets = DOMAIN pre.tweets \cup {q.target}
              /\ q.target \notin DOMAIN pre.tweets

\* A content of 281 characters is refused with ValidationError right after a
\* content of 280 characters was stored.
C17_Witness ==
  \E r \in Slots :
    /\ serial /\ Responding(r) /\ reqs[r].kind = "create"
    /\ Chars(reqs[r].body.content) = ValidatorMax + 1
    /\ reqs[r].result = "ValidationError"
    /\ last.kind = "create" /\ last.result = "ok"
    /\ last.target \in DOMAIN tweets
    /\ Chars(tweets[last.target].content) = ValidatorMax

\* C18: in a serial run, a delete request for a stored tweet by a user who
\* is not its author is answered Unauthorized and leaves the store as it
\* was; a delete answered with success was issued by the author and leaves
\* every user and every other tweet as they were, replies to the deleted
\* tweet and their replyTo included, with the target alone gone; a delete
\* answered otherwise has removed nothing.
C18_DeleteByAuthorOnly ==
  \A r \in Slots :
    LET q == reqs[r] IN
    (serial /\ Responding(r) /\ q.kind = "delete") =>
      /\ (q.target \in DOMAIN pre.tweets /\ pre.tweets[q.target].user # q.viewer)
           => q.result = "Unauthorized"
      /\ q.result = "Unauthorized" => Store = pre /\ q.target \in DOMAIN tweets
      /\ q.result = "ok" =>
           /\ q.target \in DOMAIN pre.tweets
           /\ pre.tweets[q.target].user = q.viewer
           /\ DOMAIN tweets = DOMAIN pre.tweets \ {q.target}
           /\ \A x \in DOMAIN tweets : tweets[x] = pre.tweets[x]
           /\ users = pre.users
      /\ q.result # "ok" => tweets = pre.tweets

\* u1 deletes its tweet t1 right after u2 was refused the same: t1 is gone
\* and t2, the reply of u2 to t1, is stored with replyTo t1 as before.
C18_Witness ==
  \E r \in Slots :
    /\ serial /\ Responding(r) /\ reqs[r].kind = "delete"
    /\ reqs[r].viewer = "u1" /\ reqs[r].target = "t1" /\ reqs[r].result = "ok"
    /\ last.kind = "delete" /\ last.viewer = "u2" /\ last.target = "t1"
    /\ last.result = "Unauthorized"
    /\ "t1" \notin DOMAIN tweets
    /\ "t2" \in DOMAIN tweets /\ tweets["t2"].replyTo = "t1"

\* The tweet.save() of the request in slot r has been acknowledged and the
\* request has not failed since.
SaveAcked(r) ==
  reqs[r].pc = "user" \/ (reqs[r].pc = "respond" /\ reqs[r].result = "ok")

\* Two requests of the given kinds by different users on the same tweet are
\* in flight together and the save of each has been acknowledged.
BothAcked(r1, k1, r2, k2) ==
  /\ r1 # r2 /\ reqs[r1].kind = k1 /\ reqs[r2].kind = k2
  /\ reqs[r1].viewer # reqs[r2].viewer /\ reqs[r1].target = reqs[r2].target
  /\ SaveAcked(r1) /\ SaveAcked(r2)

\* C19: when two likes by different users on the same tweet are in flight
\* together and the save of each was acknowledged (in particular when both
\* answer success), the tweet's likes hold both users; the same for two
\* retweets; and with a like of one user and an unlike of another, the
\* likes hold the first and not the second.  The two requests are the only
\* ones started so far, but for the like that the unlike undoes.
C19_NoLostLike ==
  \A r1, r2 \in Slots :
    LET t == reqs[r1].target
        a == reqs[r1].viewer
        b == reqs[r2].viewer
    IN
    /\ (BothAcked(r1, "like", r2, "like") /\ started = 2) =>
         Includes(tweets[t].likes, a) /\ Includes(tweets[t].likes, b)
    /\ (BothAcked(r1, "retweet", r2, "retweet") /\ started = 2) =>
         Includes(tweets[t].retweets, a) /\ Includes(tweets[t].retweets, b)
    /\ (BothAcked(r1, "like", r2, "unlike") /\ started = 3) =>
         Includes(tweets[t].likes, a) /\ ~Includes(tweets[t].likes, b)

\* The likes of u1 and u2 on t1 are both about to answer success; the like
\* of one was saved while the other was already in flight.
C19_Witness ==
  \E r1, r2 \in Slots :
    /\ BothAcked(r1, "like", r2, "like") /\ started = 2
    /\ Responding(r1) /\ Responding(r2)
    /\ reqs[r1].viewer = "u1" /\ reqs[r2].viewer = "u2"
    /\ tweets["t1"].likes = <<"u2", "u1">>
    /\ reqs[r2].doc.v = 1

\* The id the second write of an add puts into the mirrored array: the tweet
\* in the viewer's likes/retweets, the viewer in the target's followers.
MirrorMember(q) == IF q.kind = "follow" THEN q.viewer ELSE q.target

InOwn(g) == Includes(OwnList(Store, g.kind, g.viewer, g.target), Member(g))
InMirror(g) ==
  Includes(MirrorList(Store, g.kind, g.viewer, g.target), MirrorMember(g))

\* The entry of `gap` for the request in slot r, if there is one.
GapOf(r) ==
  {g \in gap : /\ g.kind = reqs[r].kind /\ g.viewer = reqs[r].viewer
               /\ g.target = reqs[r].target}

\* In a serial run, a like, retweet or follow that answers StoreError has
\* either written nothing or (its second write failed) left its first write
\* in place with the mirrored array untouched; and a request that repeats a
\* half-done add is answered Conflict and writes nothing.
C20_ReportAndRetry ==
  \A r \in Slots :
    LET q == reqs[r] IN
    (serial /\ Responding(r)) =>
      /\ (q.kind \in AddKinds /\ q.result = "StoreError") =>
           IF GapOf(r) = {} THEN Store = pre
           ELSE /\ OwnList(Store, q.kind, q.viewer, q.target)
                     = IF q.kind = "follow"
                       THEN OwnList(pre, q.kind, q.viewer, q.target) \o <<q.target>>
                       ELSE <<q.viewer>> \o OwnList(pre, q.kind, q.viewer, q.target)
                /\ MirrorList(Store, q.kind, q.viewer, q.target)
                     = MirrorList(pre, q.kind, q.viewer, q.target)
      /\ q.retry => q.result = "Conflict" /\ Store = pre

OtherFilters(t, p) ==
  /\ p.username # None => pre.tweets[t].user = p.username
  /\ p.query # <<>> => ContainsCI(pre.tweets[t].content, p.query)
  /\ p.type = "media" => pre.tweets[t].image # ""

\* The reply filter in the stated precedence.
ReplyEligible(t, p) ==
  IF p.replyToId # None THEN pre.tweets[t].replyTo = p.replyToId
  ELSE IF p.type \in {None, "tweets"} THEN pre.tweets[t].replyTo = None
  ELSE TRUE

\* C21: a feed request outside the liked-by-user branch succeeds and selects
\* only tweets that pass the reply filter: with a replyToId, replies to that
\* tweet, whatever the type; otherwise with type absent or "tweets",
\* top-level tweets; otherwise any tweet.  Off the home timeline the tweets
\* it selects from are exactly the stored ones that pass this and the other
\* filters, so type "replies" with a username and nothing else selects
\* every tweet of that user, top-level or reply.
C21_ReplyFilterPrecedence ==
  \A r \in Slots :
    LET q == reqs[r]
        p == q.params
    IN
    (FeedDone(r) /\ ~LikesRequest(p)) =>
      /\ q.result = "ok"
      /\ NoDup(q.full)
      /\ \A t \in Range(q.full) : ReplyEligible(t, p)
      /\ ~HomeRequest(p) =>
           Range(q.full) = {t \in DOMAIN pre.tweets :
                              OtherFilters(t, p) /\ ReplyEligible(t, p)}
      /\ (p.type = "replies" /\ p.username # None /\ p.query = <<>>
            /\ p.replyToId = None)
           => Range(q.full) = {t \in DOMAIN pre.tweets :
                                 pre.tweets[t].user = p.username}

\* A request with type "tweets" and replyToId t1 returns t2, the reply of
\* u3 to t1, and nothing else: the replyToId overrides the exclusion of
\* replies.
C21_Witness ==
  \E r \in Slots :
    /\ FeedDone(r)
    /\ reqs[r].params = [NoParams EXCEPT !.type = "tweets", !.replyToId = "t1"]
    /\ pre.tweets["t2"].replyTo = "t1" /\ pre.tweets["t2"].user = "u3"
    /\ Ids(reqs[r].out) = <<"t2">>

\* A request with type "replies" and username u2 returns u2's top-level
\* tweets t3 and t1 and u2's reply t2.
C21_WitnessReplies ==
  \E r \in Slots :
    /\ FeedDone(r)
    /\ reqs[r].params = [NoParams EXCEPT !.type = "replies", !.username = "u2"]
    /\ pre.tweets["t2"].replyTo = "t1" /\ pre.tweets["t2"].user = "u2"
    /\ Ids(reqs[r].out) = <<"t3", "t2", "t1">>

\* The stored replies whose parent is no longer stored.
Dangling == {t \in DOMAIN pre.tweets :
               /\ pre.tweets[t].replyTo # None
               /\ pre.tweets[t].replyTo \notin DOMAIN pre.tweets}

\* C22: a feed request whose selection holds a reply to a deleted tweet
\* succeeds, and the reply is in the answer (the page taking in the whole
\* selection) with replyToUser null; a reply whose parent is stored carries
\* the parent's author.
C22_DanglingReplyTolerated ==
  \A r \in Slots :
    LET q == reqs[r] IN
    (FeedDone(r) /\ Range(q.full) \cap Dangling # {}) =>
      /\ q.result = "ok"
      /\ Ids(q.out) = q.full
      /\ \A i \in 1..Len(q.out) :
           q.out[i].replyToUser =
             IF q.out[i].id \in Dangling
                  \/ pre.tweets[q.out[i].id].replyTo = None
             THEN None
             ELSE pre.tweets[pre.tweets[q.out[i].id].replyTo].user

\* t2 is a reply to a tweet since deleted, and a request for the replies to
\* that tweet is answered with t2, replyToUser null.
C22_Witness ==
  \E r \in Slots :
    /\ FeedDone(r)
    /\ reqs[r].params = [NoParams EXCEPT !.replyToId = GhostTweet]
    /\ pre.tweets["t2"].replyTo = GhostTweet
    /\ reqs[r].result = "ok"
    /\ Ids(reqs[r].out) = <<"t2">>
    /\ reqs[r].out[1].replyToUser = None

\* The same reply in u2's timeline with type "replies", between u2's
\* top-level tweets.
C22_WitnessTimeline ==
  \E r \in Slots :
    /\ FeedDone(r)
    /\ reqs[r].params = [NoParams EXCEPT !.type = "replies", !.username = "u2"]
    /\ pre.tweets["t2"].replyTo = GhostTweet /\ pre.tweets["t2"].user = "u2"
    /\ reqs[r].result = "ok"
    /\ Ids(reqs[r].out) = <<"t3", "t2", "t1">>
    /\ reqs[r].out[2].replyToUser = None

\* C23: a request with type "likes" and no username succeeds and selects
\* exactly the stored tweets that pass the search query and the replyToId
\* given, whoever the viewer follows and whatever anybody has liked; with
\* neither, every stored tweet, replies included.
C23_LikesWithoutUsername ==
  \A r \in Slots :
    LET q == reqs[r]
        p == q.params
    IN
    (FeedDone(r) /\ p.type = "likes" /\ p.username = None) =>
      /\ q.result = "ok"
      /\ Enumerates(q.full,
                    {t \in DOMAIN pre.tweets :
                       /\ p.query # <<>> => ContainsCI(pre.tweets[t].content, p.query)
                       /\ p.replyToId # None => pre.tweets[t].replyTo = p.replyToId})
      /\ Ids(q.out) = q.full
      /\ (p.query = <<>> /\ p.replyToId = None) =>
           Range(q.full) = DOMAIN pre.tweets

\* The viewer follows nobody and has liked nothing, and asks for type
\* "likes" with nothing else: the answer holds u2's tweets t3 and t1 and
\* t2, the reply of u3 to t1.
C23_Witness ==
  \E r \in Slots :
    /\ FeedDone(r) /\ reqs[r].params = [NoParams EXCEPT !.type = "likes"]
    /\ pre.users[reqs[r].viewer].following = <<>>
    /\ pre.users[reqs[r].viewer].likes = <<>>
    /\ pre.tweets["t2"].user = "u3" /\ pre.tweets["t2"].replyTo = "t1"
    /\ Ids(reqs[r].out) = <<"t3", "t2", "t1">>

====
